---- MODULE Spec2Model ----
(***************************************************************************)
(* Model of ruffle's AvmString / AvmStringRepr storage layer               *)
(* (core/src/string/avm_string.rs, core/src/string/repr.rs).               *)
(*                                                                         *)
(* Memory is a byte array `mem`; a pointer is an index into it.  A narrow  *)
(* unit takes one byte, a wide unit two (low byte first).  `heap` is the   *)
(* gc arena: the sequence of AvmStringRepr records allocated so far, a     *)
(* Gc pointer being the record's index.  `bufs` is the allocator's table   *)
(* of character buffers handed out to WStrings.  `published` records, for  *)
(* each record, the units it read when its handle was returned; `last`     *)
(* describes the operation just performed and `ops` counts operations.     *)
(***************************************************************************)
EXTENDS Integers, Sequences, FiniteSets, TLC

VARIABLES mem, heap, bufs, published, last, ops, unrooted, dropped, freed,
          frame

vars == <<mem, heap, bufs, published, last, ops, unrooted, dropped, freed,
          frame>>

\* the collector's part of the state
gcvars == <<unrooted, dropped, freed>>

(***************************************************************************)
(* Bounds of the model.                                                    *)
(***************************************************************************)
\* number of operations the program performs
MaxOps == 3

\* number of iterations of the append loop
MaxAppend == 10000

(***************************************************************************)
(* Program constants.                                                      *)
(***************************************************************************)
\* avm_string.rs:171-172: floor of the growth formula
MinCapacity == 32
\* avm_string.rs:173-174: 1024*1024, the cap of the doubling range
GrowthCap == 1048576

\* value of a byte that was allocated but never written
Uninit == -1

(***************************************************************************)
(* Handles: Source::Owned(Gc) or Source::Static(&'static WStr).            *)
(***************************************************************************)
Owned(gc) == [kind |-> "Owned", gc |-> gc, ptr |-> 0, len |-> 0, wide |-> FALSE]

Static(ptr, len, wide) ==
    [kind |-> "Static", gc |-> 0, ptr |-> ptr, len |-> len, wide |-> wide]

\* Option::None for the owner field
None == [kind |-> "None", gc |-> 0, ptr |-> 0, len |-> 0, wide |-> FALSE]

\* char_size of a width (avm_string.rs:114)
char_size(wide) == IF wide THEN 2 ELSE 1

(***************************************************************************)
(* Bytes of a unit sequence, and units read back from memory.              *)
(***************************************************************************)
RECURSIVE Flatten(_)
Flatten(ss) == IF ss = <<>> THEN <<>> ELSE Head(ss) \o Flatten(Tail(ss))

UnitBytes(u, wide) == IF wide THEN <<u % 256, u \div 256>> ELSE <<u>>

Bytes(units, wide) == Flatten([i \in 1..Len(units) |-> UnitBytes(units[i], wide)])

ReadUnit(m, p, wide) == IF wide THEN m[p] + 256 * m[p + 1] ELSE m[p]

\* wptr::from_raw_parts(ptr, meta) read as a unit sequence
ReadUnits(m, p, len, wide) ==
    [i \in 1..len |-> ReadUnit(m, p + char_size(wide) * (i - 1), wide)]

Padding(n) == [i \in 1..n |-> Uninit]

(***************************************************************************)
(* The process-wide static strings: "", "a" and "b" (narrow).  They occupy *)
(* the start of memory.                                                    *)
(***************************************************************************)
StaticMem == <<97, 98>>

StaticEmpty == Static(1, 0, FALSE)
StaticA == Static(1, 1, FALSE)
StaticB == Static(2, 1, FALSE)

Statics == {StaticEmpty, StaticA, StaticB}

(***************************************************************************)
(* AvmStringRepr (repr.rs:15-38) and its constructors.                     *)
(***************************************************************************)
\* variant of from_raw: chars_used starts at 0, as in the dependent
\* constructors
from_raw_unused(ptr, len, wide, cap, interned) ==
    [ptr |-> ptr, len |-> len, wide |-> wide, capacity |-> cap,
     interned |-> interned, chars_used |-> 0, owner |-> None]

\* AvmStringRepr::from_raw (repr.rs:41-51) on the raw parts of a WString
from_raw(ptr, len, wide, cap, interned) ==
    [ptr |-> ptr, len |-> len, wide |-> wide, capacity |-> cap,
     interned |-> interned, chars_used |-> len, owner |-> None]

\* AvmStringRepr::is_dependent (repr.rs:93-95)
is_dependent(r) == r.owner # None

\* AvmString::owner (avm_string.rs:77-82)
owner(h, s) == IF s.kind = "Owned" THEN h[s.gc].owner ELSE None

\* AvmString::as_wstr (avm_string.rs:84-89): pointer, length and width
wstr_ptr(h, s) == IF s.kind = "Owned" THEN h[s.gc].ptr ELSE s.ptr
wstr_len(h, s) == IF s.kind = "Owned" THEN h[s.gc].len ELSE s.len
is_wide(h, s) == IF s.kind = "Owned" THEN h[s.gc].wide ELSE s.wide

\* the units a handle reads
as_wstr(m, h, s) == ReadUnits(m, wstr_ptr(h, s), wstr_len(h, s), is_wide(h, s))

\* variant of new_dependent: the operand itself is stored as the owner,
\* without resolving it to its own owner
new_dependent_unflattened(h, s, start, end) ==
    [ptr |-> wstr_ptr(h, s) + char_size(is_wide(h, s)) * start,
     len |-> end - start,
     wide |-> is_wide(h, s),
     capacity |-> 0,
     interned |-> FALSE,
     chars_used |-> 0,
     owner |-> s]

\* variant of new_dependent: start is applied as a byte offset, whatever
\* the width
new_dependent_byte_offset(h, s, start, end) ==
    [ptr |-> wstr_ptr(h, s) + start,
     len |-> end - start,
     wide |-> is_wide(h, s),
     capacity |-> 0,
     interned |-> FALSE,
     chars_used |-> 0,
     owner |-> IF owner(h, s) # None THEN owner(h, s) ELSE s]

\* variant of new_dependent: the substring takes over its operand's
\* interned flag
new_dependent_inherits_interned(h, s, start, end) ==
    [ptr |-> wstr_ptr(h, s) + char_size(is_wide(h, s)) * start,
     len |-> end - start,
     wide |-> is_wide(h, s),
     capacity |-> 0,
     interned |-> IF s.kind = "Owned" THEN h[s.gc].interned ELSE FALSE,
     chars_used |-> 0,
     owner |-> IF owner(h, s) # None THEN owner(h, s) ELSE s]

\* AvmStringRepr::new_dependent (repr.rs:53-75)
new_dependent(h, s, start, end) ==
    [ptr |-> wstr_ptr(h, s) + char_size(is_wide(h, s)) * start,
     len |-> end - start,
     wide |-> is_wide(h, s),
     capacity |-> 0,
     interned |-> FALSE,
     chars_used |-> 0,
     owner |-> IF owner(h, s) # None THEN owner(h, s) ELSE s]

\* variant of set_chars_used: the new count is not stored
set_chars_used_dropped(h, gc, value) == h

\* AvmStringRepr::set_chars_used (repr.rs:133-135) on the record at gc
set_chars_used(h, gc, value) == [h EXCEPT ![gc].chars_used = value]

\* AvmStringRepr::new_dependent_raw (repr.rs:77-90)
new_dependent_raw(own, ptr, length, wide) ==
    [ptr |-> ptr, len |-> length, wide |-> wide, capacity |-> 0,
     interned |-> FALSE, chars_used |-> 0, owner |-> own]

\* AvmStringRepr::is_interned (repr.rs:108-110)
is_interned(r) == r.interned

\* variant of mark_interned_panics: the dependent check is left out
mark_interned_unchecked(r) == FALSE

\* repr.rs:113-115: mark_interned panics on a dependent record
mark_interned_panics(r) == is_dependent(r)

\* variant of mark_interned: the capacity's length is not carried over
mark_interned_drops_capacity(h, gc) ==
    [h EXCEPT ![gc].interned = TRUE, ![gc].capacity = 0]

\* AvmStringRepr::mark_interned (repr.rs:116-118) on the record at gc: the
\* flag is set and the capacity's length kept
mark_interned(h, gc) == [h EXCEPT ![gc].interned = TRUE]

(***************************************************************************)
(* The allocator behind WString: a buffer of cap units.  A buffer of       *)
(* capacity 0 is a dangling, aligned pointer and takes no memory.          *)
(***************************************************************************)
\* first address past the buffers handed out so far
NextFree(b) ==
    IF b = <<>> THEN Len(StaticMem) + 1
    ELSE b[Len(b)].base + char_size(b[Len(b)].wide) * b[Len(b)].cap

AllocBase(b, cap, wide) == IF cap = 0 THEN char_size(wide) ELSE NextFree(b)

\* memory after a WString holding `units` with capacity cap is allocated
AllocMem(m, units, cap, wide) ==
    m \o Bytes(units, wide) \o Padding(char_size(wide) * (cap - Len(units)))

AllocBufs(b, cap, wide) ==
    IF cap = 0 THEN b
    ELSE Append(b, [base |-> NextFree(b), cap |-> cap, wide |-> wide])

\* capacity of the buffer WString::with_capacity(capacity, wide) hands back
\* after push_str of no more than `capacity` units: the request, exactly
with_capacity(capacity) == capacity

(***************************************************************************)
(* AvmString::concat (avm_string.rs:98-184), its parts.                    *)
(***************************************************************************)
\* variant of the short-circuit: left is returned whichever operand is empty
concat_empty_always_left(h, left, right) == left

\* the identity short-circuit (avm_string.rs:103-106)
concat_empty(h, left, right) == IF wstr_len(h, left) = 0 THEN right ELSE left

\* left.owner().unwrap_or(left) (avm_string.rs:112)
left_origin_s(h, left) == IF owner(h, left) # None THEN owner(h, left) ELSE left

\* left_origin.raw_ptr() (avm_string.rs:123)
left_origin_ptr(h, left) == h[left_origin_s(h, left).gc].ptr

\* avm_string.rs:124: the pointer is read from left_origin, not from left
left_ptr(h, left) == h[left_origin_s(h, left).gc].ptr

\* variant of first_available: the end of left's own view is taken for the
\* owner's first free unit (len in place of chars_used)
first_available_from_len(h, left) ==
    left_origin_ptr(h, left) + char_size(is_wide(h, left)) * wstr_len(h, left)

\* avm_string.rs:140
first_available(h, left) ==
    left_origin_ptr(h, left)
        + char_size(is_wide(h, left)) * h[left_origin_s(h, left).gc].chars_used

\* avm_string.rs:141
first_requested(h, left) ==
    left_ptr(h, left) + char_size(is_wide(h, left)) * wstr_len(h, left)

\* variant of chars_available: the address-coincidence test is dropped
chars_available_unguarded(h, left) ==
    LET left_capacity_end ==
            left_origin_ptr(h, left)
                + char_size(is_wide(h, left)) * h[left_origin_s(h, left).gc].capacity
    IN  (left_capacity_end - first_available(h, left)) \div char_size(is_wide(h, left))

\* avm_string.rs:143-147
chars_available(h, left) ==
    IF first_available(h, left) = first_requested(h, left)
    THEN LET left_capacity_end ==
                 left_origin_ptr(h, left)
                     + char_size(is_wide(h, left))
                           * h[left_origin_s(h, left).gc].capacity
         IN  (left_capacity_end - first_available(h, left))
                 \div char_size(is_wide(h, left))
    ELSE 0

\* variant of in_place: the width gate is dropped
in_place_any_width(h, left, right) ==
    /\ left.kind = "Owned"
    /\ left_origin_s(h, left).kind = "Owned"
    /\ chars_available(h, left) >= wstr_len(h, right)

\* the conditions under which concat appends in place
\* (avm_string.rs:111, 113, 148)
in_place(h, left, right) ==
    /\ is_wide(h, left) = is_wide(h, right)
    /\ left.kind = "Owned"
    /\ left_origin_s(h, left).kind = "Owned"
    /\ chars_available(h, left) >= wstr_len(h, right)

\* std::ptr::copy_nonoverlapping(src, dst, count) on the byte array
copy_nonoverlapping(m, src, dst, count) ==
    [i \in 1..Len(m) |->
        IF dst <= i /\ i < dst + count THEN m[src + (i - dst)] ELSE m[i]]

\* variant of the growth formula: the floor also applies at new_size = 32
\* and doubling also applies past 1MiB up to the next comparison
new_capacity_inclusive(new_size) ==
    IF new_size <= MinCapacity THEN MinCapacity
    ELSE IF new_size > GrowthCap THEN new_size + GrowthCap
    ELSE new_size * 2

\* variant of new_capacity: the buffer is sized to fit, without headroom
new_capacity_exact(new_size) == new_size

\* the growth formula of the slow path (avm_string.rs:170-177)
new_capacity(new_size) ==
    IF new_size < MinCapacity THEN MinCapacity
    ELSE IF new_size > GrowthCap THEN new_size + GrowthCap
    ELSE new_size * 2

\* the record the slow path builds for left and right over the buffers b
\* (avm_string.rs:170-182)
slow_repr(h, b, left, right) ==
    LET new_size == wstr_len(h, left) + wstr_len(h, right)
        wide == is_wide(h, left) \/ is_wide(h, right)
        cap == with_capacity(new_capacity(new_size))
    IN  from_raw(AllocBase(b, cap, wide), new_size, wide, cap, FALSE)

\* variant of to_fully_owned_copies: a dependent record is handed back as is
to_fully_owned_keeps_dependent(h, s) == s.kind = "Static"

\* avm_string.rs:24-38: whether to_fully_owned builds a fresh record
to_fully_owned_copies(h, s) ==
    \/ s.kind = "Static"
    \/ /\ s.kind = "Owned"
       /\ is_dependent(h[s.gc])

\* variant of as_interned: every owned handle is taken for an atom
as_interned_any_owned(h, s) == IF s.kind = "Owned" THEN s ELSE None

\* AvmString::as_interned (avm_string.rs:91-96): the atom, or None
as_interned(h, s) ==
    IF s.kind = "Owned" /\ is_interned(h[s.gc]) THEN s ELSE None

\* variant of eq: the fast reject looks at the left operand's flag only
eq_reject_left_interned(m, h, a, b) ==
    IF a.kind = "Owned" /\ b.kind = "Owned" /\ a.gc = b.gc THEN TRUE
    ELSE IF a.kind = "Owned" /\ b.kind = "Owned" /\ is_interned(h[a.gc])
         THEN FALSE
         ELSE as_wstr(m, h, a) = as_wstr(m, h, b)

\* PartialEq for AvmString (avm_string.rs:246-261)
eq(m, h, a, b) ==
    IF a.kind = "Owned" /\ b.kind = "Owned" /\ a.gc = b.gc THEN TRUE
    ELSE IF /\ a.kind = "Owned" /\ b.kind = "Owned"
            /\ is_interned(h[a.gc]) /\ is_interned(h[b.gc])
         THEN FALSE
         ELSE as_wstr(m, h, a) = as_wstr(m, h, b)

\* AvmAtom == AvmAtom: the two atoms are the same allocation
atom_eq(t, u) == t.gc = u.gc

\* From<AvmAtom> for AvmString (avm_string.rs:192-198)
from_atom(t) == Owned(t.gc)

\* variant of eq_atom: an owned handle is compared by identity whether or
\* not its record is interned
eq_atom_identity_for_owned(m, h, t, s) ==
    IF s.kind = "Owned" THEN atom_eq(t, s)
    ELSE as_wstr(m, h, t) = as_wstr(m, h, s)

\* PartialEq<AvmString> for AvmAtom (avm_string.rs:263-271): t == s
eq_atom(m, h, t, s) ==
    IF as_interned(h, s) # None THEN atom_eq(t, as_interned(h, s))
    ELSE as_wstr(m, h, t) = as_wstr(m, h, s)

\* PartialEq<AvmAtom> for AvmString (avm_string.rs:273-278): s == t
eq_string_atom(m, h, s, t) == eq_atom(m, h, t, s)

\* capacity of the WString that WString::from(&WStr) builds: the length
wstring_from_capacity(len) == len

(***************************************************************************)
(* State.                                                                  *)
(***************************************************************************)
\* no concat call is in progress
Idle == [pc |-> "idle", left |-> None, right |-> None, copied |-> {}]

NoOp == [op |-> "init", left |-> None, right |-> None, res |-> None,
         path |-> "none", start |-> 0, end |-> 0, dst |-> 0, count |-> 0]

Init ==
    /\ mem = StaticMem
    /\ heap = <<>>
    /\ bufs = <<>>
    /\ published = <<>>
    /\ last = NoOp
    /\ ops = 0
    /\ unrooted = {}
    /\ dropped = {}
    /\ freed = <<>>
    /\ frame = Idle

\* every handle the program can hold
Handles == Statics \cup {Owned(i) : i \in (1..Len(heap)) \ unrooted}

\* the WStrings handed to AvmString::new
NewInputs ==
    {[units |-> <<>>, wide |-> FALSE, cap |-> 0],
     [units |-> <<98, 97>>, wide |-> FALSE, cap |-> 2],
     [units |-> <<98, 97>>, wide |-> FALSE, cap |-> 3],
     [units |-> <<300>>, wide |-> TRUE, cap |-> 2]}

(***************************************************************************)
(* AvmString::new (avm_string.rs:57-62) on a WString with the given units, *)
(* width and capacity.                                                     *)
(***************************************************************************)
New(units, wide, cap) ==
    LET repr == from_raw(AllocBase(bufs, cap, wide), Len(units), wide, cap, FALSE)
    IN  /\ ops < MaxOps
        /\ ops' = ops + 1
        /\ UNCHANGED <<gcvars, frame>>
        /\ mem' = AllocMem(mem, units, cap, wide)
        /\ bufs' = AllocBufs(bufs, cap, wide)
        /\ heap' = Append(heap, repr)
        /\ published' = Append(published, units)
        /\ last' = [NoOp EXCEPT !.op = "new", !.res = Owned(Len(heap) + 1)]

(***************************************************************************)
(* AvmString::new_dependent (avm_string.rs:64-75).                         *)
(***************************************************************************)
NewDependent(s, start, end) ==
    LET repr == new_dependent(heap, s, start, end)
    IN  /\ ops < MaxOps
        /\ ops' = ops + 1
        /\ UNCHANGED <<gcvars, frame>>
        /\ start <= end
        /\ end <= wstr_len(heap, s)
        /\ heap' = Append(heap, repr)
        /\ published' = Append(published, ReadUnits(mem, repr.ptr, repr.len, repr.wide))
        /\ last' = [NoOp EXCEPT !.op = "new_dependent", !.left = s,
                                !.res = Owned(Len(heap) + 1),
                                !.start = start, !.end = end]
        /\ UNCHANGED <<mem, bufs>>

(***************************************************************************)
(* AvmString::concat (avm_string.rs:98-184).                               *)
(***************************************************************************)
\* avm_string.rs:103-106
ConcatEmpty(left, right) ==
    /\ ops < MaxOps
    /\ ops' = ops + 1
    /\ UNCHANGED <<gcvars, frame>>
    /\ wstr_len(heap, left) = 0 \/ wstr_len(heap, right) = 0
    /\ last' = [NoOp EXCEPT !.op = "concat", !.left = left, !.right = right,
                            !.res = concat_empty(heap, left, right),
                            !.path = "empty"]
    /\ UNCHANGED <<mem, heap, bufs, published>>

\* avm_string.rs:111-160
ConcatInPlace(left, right) ==
    LET origin == left_origin_s(heap, left)
        wide == is_wide(heap, left)
        rlen == wstr_len(heap, right)
        repr == new_dependent_raw(origin, left_ptr(heap, left),
                                  wstr_len(heap, left) + rlen, wide)
        m2 == copy_nonoverlapping(mem, wstr_ptr(heap, right),
                                  first_available(heap, left),
                                  char_size(wide) * rlen)
    IN  /\ ops < MaxOps
        /\ ops' = ops + 1
        /\ UNCHANGED <<gcvars, frame>>
        /\ wstr_len(heap, left) # 0
        /\ rlen # 0
        /\ in_place(heap, left, right)
        /\ mem' = m2
        /\ heap' = Append(set_chars_used(heap, origin.gc,
                                         heap[origin.gc].chars_used + rlen), repr)
        /\ published' = Append(published, ReadUnits(m2, repr.ptr, repr.len, repr.wide))
        /\ last' = [NoOp EXCEPT !.op = "concat", !.left = left, !.right = right,
                                !.res = Owned(Len(heap) + 1), !.path = "in_place",
                                !.dst = first_available(heap, left),
                                !.count = char_size(wide) * rlen]
        /\ UNCHANGED bufs

\* avm_string.rs:165-182
ConcatSlow(left, right) ==
    LET out == as_wstr(mem, heap, left) \o as_wstr(mem, heap, right)
        repr == slow_repr(heap, bufs, left, right)
    IN  /\ ops < MaxOps
        /\ ops' = ops + 1
        /\ UNCHANGED <<gcvars, frame>>
        /\ wstr_len(heap, left) # 0
        /\ wstr_len(heap, right) # 0
        /\ ~in_place(heap, left, right)
        /\ mem' = AllocMem(mem, out, repr.capacity, repr.wide)
        /\ bufs' = AllocBufs(bufs, repr.capacity, repr.wide)
        /\ heap' = Append(heap, repr)
        /\ published' = Append(published, out)
        /\ last' = [NoOp EXCEPT !.op = "concat", !.left = left, !.right = right,
                                !.res = Owned(Len(heap) + 1), !.path = "slow"]

(***************************************************************************)
(* AvmString::to_fully_owned (avm_string.rs:23-39).                        *)
(***************************************************************************)
\* avm_string.rs:26-33 (Owned, not dependent): the handle's own record
ToFullyOwnedReuse(s) ==
    /\ ops < MaxOps
    /\ ops' = ops + 1
    /\ UNCHANGED <<gcvars, frame>>
    /\ ~to_fully_owned_copies(heap, s)
    /\ last' = [NoOp EXCEPT !.op = "to_fully_owned", !.left = s, !.res = s,
                            !.path = "reuse"]
    /\ UNCHANGED <<mem, heap, bufs, published>>

\* avm_string.rs:27-31 (dependent) and 34-37 (static): a fresh copy
ToFullyOwnedCopy(s) ==
    LET units == as_wstr(mem, heap, s)
        wide == is_wide(heap, s)
        cap == wstring_from_capacity(Len(units))
        repr == from_raw(AllocBase(bufs, cap, wide), Len(units), wide, cap, FALSE)
    IN  /\ ops < MaxOps
        /\ ops' = ops + 1
        /\ UNCHANGED <<gcvars, frame>>
        /\ to_fully_owned_copies(heap, s)
        /\ mem' = AllocMem(mem, units, cap, wide)
        /\ bufs' = AllocBufs(bufs, cap, wide)
        /\ heap' = Append(heap, repr)
        /\ published' = Append(published, units)
        /\ last' = [NoOp EXCEPT !.op = "to_fully_owned", !.left = s,
                                !.res = Owned(Len(heap) + 1), !.path = "copy"]

ToFullyOwned(s) ==
    \/ ToFullyOwnedReuse(s)
    \/ ToFullyOwnedCopy(s)

Concat(left, right) ==
    \/ ConcatEmpty(left, right)
    \/ ConcatInPlace(left, right)
    \/ ConcatSlow(left, right)

Next ==
    \/ \E w \in NewInputs : New(w.units, w.wide, w.cap)
    \/ \E s \in Handles :
           \E start \in 0..wstr_len(heap, s), end \in 0..wstr_len(heap, s) :
               NewDependent(s, start, end)
    \/ \E left \in Handles, right \in Handles : Concat(left, right)
    \/ \E s \in Handles : ToFullyOwned(s)

Spec == Init /\ [][Next]_vars

(***************************************************************************)
(* The interning operations of the record layer, which the intern table    *)
(* calls: from_raw with the interned flag (repr.rs:41-51) and              *)
(* mark_interned (repr.rs:112-119), and handle equality                    *)
(* (avm_string.rs:246-261).                                                *)
(***************************************************************************)
\* the WStrings handed to from_raw(s, true)
InternedInputs ==
    {[units |-> <<98, 97>>, wide |-> FALSE, cap |-> 3],
     [units |-> <<300>>, wide |-> TRUE, cap |-> 2]}

FromRawInterned(units, wide, cap) ==
    LET repr == from_raw(AllocBase(bufs, cap, wide), Len(units), wide, cap, TRUE)
    IN  /\ ops < MaxOps
        /\ ops' = ops + 1
        /\ UNCHANGED <<gcvars, frame>>
        /\ mem' = AllocMem(mem, units, cap, wide)
        /\ bufs' = AllocBufs(bufs, cap, wide)
        /\ heap' = Append(heap, repr)
        /\ published' = Append(published, units)
        /\ last' = [NoOp EXCEPT !.op = "from_raw_interned",
                                !.res = Owned(Len(heap) + 1)]

\* repr.rs:113-115: the panic aborts the call and changes no record
MarkInternedPanic(i) ==
    /\ ops < MaxOps
    /\ ops' = ops + 1
    /\ UNCHANGED <<gcvars, frame>>
    /\ mark_interned_panics(heap[i])
    /\ last' = [NoOp EXCEPT !.op = "mark_interned", !.left = Owned(i),
                            !.path = "panic"]
    /\ UNCHANGED <<mem, heap, bufs, published>>

\* repr.rs:116-118
MarkInternedSet(i) ==
    /\ ops < MaxOps
    /\ ops' = ops + 1
    /\ UNCHANGED <<gcvars, frame>>
    /\ ~mark_interned_panics(heap[i])
    /\ heap' = mark_interned(heap, i)
    /\ last' = [NoOp EXCEPT !.op = "mark_interned", !.left = Owned(i),
                            !.path = "set"]
    /\ UNCHANGED <<mem, bufs, published>>

MarkInterned(i) ==
    \/ MarkInternedPanic(i)
    \/ MarkInternedSet(i)

\* a == b on two handles; the answer is kept in last.path
Eq(a, b) ==
    /\ ops < MaxOps
    /\ ops' = ops + 1
    /\ UNCHANGED <<gcvars, frame>>
    /\ last' = [NoOp EXCEPT !.op = "eq", !.left = a, !.right = b,
                            !.path = IF eq(mem, heap, a, b) THEN "true"
                                                           ELSE "false"]
    /\ UNCHANGED <<mem, heap, bufs, published>>

\* s.as_interned(); the answer is kept in last.res
AsInterned(s) ==
    /\ ops < MaxOps
    /\ ops' = ops + 1
    /\ UNCHANGED <<gcvars, frame>>
    /\ last' = [NoOp EXCEPT !.op = "as_interned", !.left = s,
                            !.res = as_interned(heap, s)]
    /\ UNCHANGED <<mem, heap, bufs, published>>

RawNext ==
    \/ \E s \in Handles :
           \E start \in 0..wstr_len(heap, s), end \in 0..wstr_len(heap, s) :
               NewDependent(s, start, end)
    \/ \E left \in Handles, right \in Handles : Concat(left, right)
    \/ \E s \in Handles : ToFullyOwned(s)
    \/ \E w \in InternedInputs : FromRawInterned(w.units, w.wide, w.cap)
    \/ \E i \in 1..Len(heap) : MarkInterned(i)
    \/ \E s \in Handles : AsInterned(s)

SpecRaw == Init /\ [][RawNext]_vars

\* the atoms the program can hold
Atoms == {s \in Handles : as_interned(heap, s) # None}

\* t == s for an atom t and a handle s; the answer is kept in last.path
AtomEq(t, s) ==
    /\ ops < MaxOps
    /\ ops' = ops + 1
    /\ UNCHANGED <<gcvars, frame>>
    /\ last' = [NoOp EXCEPT !.op = "atom_eq", !.left = t, !.right = s,
                            !.path = IF eq_atom(mem, heap, t, s) THEN "true"
                                                                ELSE "false"]
    /\ UNCHANGED <<mem, heap, bufs, published>>

\* s == t for a handle s and an atom t
EqAtom(s, t) ==
    /\ ops < MaxOps
    /\ ops' = ops + 1
    /\ UNCHANGED <<gcvars, frame>>
    /\ last' = [NoOp EXCEPT !.op = "eq_atom", !.left = s, !.right = t,
                            !.path = IF eq_string_atom(mem, heap, s, t) THEN "true"
                                                                       ELSE "false"]
    /\ UNCHANGED <<mem, heap, bufs, published>>

\* handle equality over records made by new, from_raw with the flag,
\* mark_interned and new_dependent
EqNext ==
    \/ \E w \in NewInputs : New(w.units, w.wide, w.cap)
    \/ \E w \in InternedInputs : FromRawInterned(w.units, w.wide, w.cap)
    \/ \E i \in 1..Len(heap) : MarkInterned(i)
    \/ \E s \in Handles :
           \E start \in 0..wstr_len(heap, s), end \in 0..wstr_len(heap, s) :
               NewDependent(s, start, end)
    \/ \E a \in Handles, b \in Handles : Eq(a, b)
    \/ \E t \in Atoms, s \in Handles : AtomEq(t, s)
    \/ \E s \in Handles, t \in Atoms : EqAtom(s, t)

SpecEq == Init /\ [][EqNext]_vars

(***************************************************************************)
(* Collection.  The program lets go of its handle to a record (the record  *)
(* stays while a traced edge leads to it); the collector drops a record    *)
(* that no rooted record reaches, running Drop for AvmStringRepr           *)
(* (repr.rs:138-148).                                                      *)
(***************************************************************************)
\* variant of trace: the owner field is not traced
trace_nothing(r) == {}

\* #[derive(Collect)] on AvmStringRepr (repr.rs:13-38): owner is the one
\* field that is not require_static
trace(r) == IF r.owner.kind = "Owned" THEN {r.owner.gc} ELSE {}

\* the records reached from the set S of records along traced edges
RECURSIVE Reach(_, _)
Reach(h, S) ==
    LET T == S \cup UNION {trace(h[i]) : i \in S}
    IN  IF T = S THEN S ELSE Reach(h, T)

\* the records the collector must keep
Live == Reach(heap, (1..Len(heap)) \ unrooted)

\* repr.rs:140: Drop hands the buffer back only for a record without owner;
\* a WString of capacity 0 holds no allocation
drop_frees(r) == r.owner = None /\ r.capacity > 0

\* memory after the buffer of record r is handed back to the allocator
Dealloc(m, r) ==
    [a \in 1..Len(m) |->
        IF a >= r.ptr /\ a < r.ptr + char_size(r.wide) * r.capacity
        THEN Uninit ELSE m[a]]

\* the program lets go of its handle to record i
Forget(i) ==
    /\ ops < MaxOps
    /\ ops' = ops + 1
    /\ i \notin unrooted
    /\ unrooted' = unrooted \cup {i}
    /\ last' = [NoOp EXCEPT !.op = "forget", !.left = Owned(i)]
    /\ UNCHANGED <<mem, heap, bufs, published, dropped, freed, frame>>

\* the collector drops record i, which nothing live reaches
Collect(i) ==
    /\ i \notin dropped
    /\ i \notin Live
    /\ dropped' = dropped \cup {i}
    /\ freed' = IF drop_frees(heap[i]) THEN Append(freed, heap[i].ptr) ELSE freed
    /\ mem' = IF drop_frees(heap[i]) THEN Dealloc(mem, heap[i]) ELSE mem
    /\ last' = [NoOp EXCEPT !.op = "collect", !.left = Owned(i)]
    /\ UNCHANGED <<heap, bufs, published, ops, unrooted, frame>>

GcNext ==
    \/ \E w \in NewInputs : New(w.units, w.wide, w.cap)
    \/ \E s \in Handles :
           \E start \in 0..wstr_len(heap, s), end \in 0..wstr_len(heap, s) :
               NewDependent(s, start, end)
    \/ \E left \in Handles, right \in Handles : Concat(left, right)
    \/ \E i \in 1..Len(heap) : Forget(i)
    \/ \E i \in 1..Len(heap) : Collect(i)

SpecGc == Init /\ [][GcNext]_vars

(***************************************************************************)
(* The in-place path of concat (avm_string.rs:148-159) statement by        *)
(* statement: copy_nonoverlapping byte by byte in any order, then          *)
(* set_chars_used, then the dependent record.  frame holds the call in     *)
(* progress; the program is single-threaded, so nothing else runs until    *)
(* the call returns.                                                       *)
(***************************************************************************)
\* byte offsets copy_nonoverlapping has to write
CopyOffsets(h, f) ==
    0..(char_size(is_wide(h, f.left)) * wstr_len(h, f.right) - 1)

\* variant of copy_done: the counter is advanced without waiting for the copy
copy_done_at_once(h, f) == TRUE

\* avm_string.rs:149-154: copy_nonoverlapping has returned
copy_done(h, f) == f.copied = CopyOffsets(h, f)

\* avm_string.rs:148: the call enters the in-place branch
ConcatBegin(left, right) ==
    /\ frame = Idle
    /\ ops < MaxOps
    /\ ops' = ops + 1
    /\ wstr_len(heap, left) # 0
    /\ wstr_len(heap, right) # 0
    /\ in_place(heap, left, right)
    /\ frame' = [pc |-> "copy", left |-> left, right |-> right, copied |-> {}]
    /\ UNCHANGED <<mem, heap, bufs, published, last, gcvars>>

\* avm_string.rs:149-151: one byte of copy_nonoverlapping
CopyByte(k) ==
    /\ frame.pc = "copy"
    /\ k \in CopyOffsets(heap, frame) \ frame.copied
    /\ mem' = [mem EXCEPT ![first_available(heap, frame.left) + k] =
                              mem[wstr_ptr(heap, frame.right) + k]]
    /\ frame' = [frame EXCEPT !.copied = @ \cup {k}]
    /\ UNCHANGED <<heap, bufs, published, last, ops, gcvars>>

\* avm_string.rs:154
Publish ==
    LET origin == left_origin_s(heap, frame.left)
    IN  /\ frame.pc = "copy"
        /\ copy_done(heap, frame)
        /\ heap' = set_chars_used(heap, origin.gc,
                                  heap[origin.gc].chars_used
                                      + wstr_len(heap, frame.right))
        /\ frame' = [frame EXCEPT !.pc = "publish"]
        /\ UNCHANGED <<mem, bufs, published, last, ops, gcvars>>

\* avm_string.rs:156-159
Return ==
    LET origin == left_origin_s(heap, frame.left)
        wide == is_wide(heap, frame.left)
        rlen == wstr_len(heap, frame.right)
        repr == new_dependent_raw(origin, left_ptr(heap, frame.left),
                                  wstr_len(heap, frame.left) + rlen, wide)
    IN  /\ frame.pc = "publish"
        /\ heap' = Append(heap, repr)
        /\ published' = Append(published, ReadUnits(mem, repr.ptr, repr.len, repr.wide))
        /\ last' = [NoOp EXCEPT !.op = "concat", !.left = frame.left,
                                !.right = frame.right,
                                !.res = Owned(Len(heap) + 1), !.path = "in_place",
                                !.dst = heap[origin.gc].ptr
                                          + char_size(wide)
                                              * (heap[origin.gc].chars_used - rlen),
                                !.count = char_size(wide) * rlen]
        /\ frame' = Idle
        /\ UNCHANGED <<mem, bufs, ops, gcvars>>

StepsNext ==
    \/ /\ frame = Idle
       /\ \E w \in NewInputs : New(w.units, w.wide, w.cap)
    \/ /\ frame = Idle
       /\ \E s \in Handles :
              \E start \in 0..wstr_len(heap, s), end \in 0..wstr_len(heap, s) :
                  NewDependent(s, start, end)
    \/ \E left \in Handles, right \in Handles : ConcatBegin(left, right)
    \/ \E k \in CopyOffsets(heap, frame) : CopyByte(k)
    \/ Publish
    \/ Return

SpecSteps == Init /\ [][StepsNext]_vars

(***************************************************************************)
(* The slow path on strings of realistic lengths.  Character contents are  *)
(* left out: the state starts with two records made by AvmString::new from *)
(* WStrings of the drawn lengths and widths (capacity = length), and       *)
(* concat's slow path (avm_string.rs:165-182) builds its record from them. *)
(***************************************************************************)
GrowLens == {1, 9, 16, 30, 31, 250000, 524288, 750000, 1048575, 1048576}

GrowInit ==
    \E l \in GrowLens, r \in GrowLens, wl \in BOOLEAN, wr \in BOOLEAN :
        LET b1 == AllocBufs(<<>>, l, wl)
        IN  /\ heap = <<from_raw(AllocBase(<<>>, l, wl), l, wl, l, FALSE),
                        from_raw(AllocBase(b1, r, wr), r, wr, r, FALSE)>>
            /\ bufs = AllocBufs(b1, r, wr)
            /\ mem = StaticMem
            /\ published = <<>>
            /\ last = NoOp
            /\ ops = 0
            /\ unrooted = {}
            /\ dropped = {}
            /\ freed = <<>>
            /\ frame = Idle

GrowConcat(left, right) ==
    LET repr == slow_repr(heap, bufs, left, right)
    IN  /\ ops < MaxOps
        /\ ops' = ops + 1
        /\ UNCHANGED <<gcvars, frame>>
        /\ wstr_len(heap, left) # 0
        /\ wstr_len(heap, right) # 0
        /\ ~in_place(heap, left, right)
        /\ bufs' = AllocBufs(bufs, repr.capacity, repr.wide)
        /\ heap' = Append(heap, repr)
        /\ last' = [NoOp EXCEPT !.op = "concat", !.left = left, !.right = right,
                                !.res = Owned(Len(heap) + 1), !.path = "slow"]
        /\ UNCHANGED <<mem, published>>

GrowNext ==
    \E left \in {Owned(i) : i \in 1..Len(heap)},
       right \in {Owned(i) : i \in 1..Len(heap)} : GrowConcat(left, right)

SpecGrow == GrowInit /\ [][GrowNext]_vars

(***************************************************************************)
(* The append loop  s = concat(s, "a")  from the empty string.  Character  *)
(* contents are left out.  Each iteration overwrites s, so the records the *)
(* loop no longer reaches are collected: the heap holds the owner of the   *)
(* current buffer first and, after it, the record s refers to.             *)
(***************************************************************************)
\* the loop variable s
Current == IF last.op = "init" THEN StaticEmpty ELSE last.res

\* avm_string.rs:103-106
AppendEmpty ==
    /\ ops < MaxAppend
    /\ ops' = ops + 1
    /\ wstr_len(heap, Current) = 0 \/ wstr_len(heap, StaticA) = 0
    /\ last' = [NoOp EXCEPT !.op = "concat", !.left = Current, !.right = StaticA,
                            !.res = concat_empty(heap, Current, StaticA),
                            !.path = "empty"]
    /\ UNCHANGED <<mem, heap, bufs, published, gcvars, frame>>

\* avm_string.rs:111-160
AppendInPlace ==
    LET left == Current
        origin == left_origin_s(heap, left)
        repr == new_dependent_raw(origin, left_ptr(heap, left),
                                  wstr_len(heap, left) + wstr_len(heap, StaticA),
                                  is_wide(heap, left))
        h2 == set_chars_used(heap, origin.gc,
                             heap[origin.gc].chars_used + wstr_len(heap, StaticA))
    IN  /\ ops < MaxAppend
        /\ ops' = ops + 1
        /\ wstr_len(heap, left) # 0
        /\ wstr_len(heap, StaticA) # 0
        /\ in_place(heap, left, StaticA)
        /\ heap' = <<h2[origin.gc], repr>>
        /\ last' = [NoOp EXCEPT !.op = "concat", !.left = left, !.right = StaticA,
                                !.res = Owned(2), !.path = "in_place"]
        /\ UNCHANGED <<mem, bufs, published, gcvars, frame>>

\* avm_string.rs:165-182
AppendSlow ==
    LET left == Current
        repr == slow_repr(heap, bufs, left, StaticA)
    IN  /\ ops < MaxAppend
        /\ ops' = ops + 1
        /\ wstr_len(heap, left) # 0
        /\ wstr_len(heap, StaticA) # 0
        /\ ~in_place(heap, left, StaticA)
        /\ bufs' = AllocBufs(bufs, repr.capacity, repr.wide)
        /\ heap' = <<repr>>
        /\ last' = [NoOp EXCEPT !.op = "concat", !.left = left, !.right = StaticA,
                                !.res = Owned(1), !.path = "slow"]
        /\ UNCHANGED <<mem, published, gcvars, frame>>

AppendNext ==
    \/ AppendEmpty
    \/ AppendInPlace
    \/ AppendSlow

SpecAppend == Init /\ [][AppendNext]_vars

TypeOK ==
    /\ Len(published) = Len(heap)
    /\ \A i \in 1..Len(mem) : mem[i] \in {Uninit} \cup 0..255

(***************************************************************************)
(* Vocabulary of the properties.                                           *)
(***************************************************************************)
\* the units record i reads
Content(i) == ReadUnits(mem, heap[i].ptr, heap[i].len, heap[i].wide)

\* the units handle s reads
Read(s) == as_wstr(mem, heap, s)

\* the ultimate owner of a handle, following owner edges to their end
RECURSIVE Root(_, _)
Root(h, s) ==
    IF s.kind = "Owned" /\ h[s.gc].owner # None THEN Root(h, h[s.gc].owner) ELSE s

\* byte range [lo, hi) of the view of handle s over heap h
RangeLo(h, s) == wstr_ptr(h, s)
RangeHi(h, s) == wstr_ptr(h, s) + char_size(is_wide(h, s)) * wstr_len(h, s)

\* the step just taken was a concat (of any path)
ConcatStep == ops' # ops /\ last'.op = "concat"

(***************************************************************************)
(* C1: concat(a, b) has length len(a) + len(b) and reads a's units         *)
(* followed by b's units, on the empty, in-place and slow paths alike.     *)
(***************************************************************************)
C1_ConcatContent ==
    [][ConcatStep =>
         /\ wstr_len(heap', last'.res)
                = wstr_len(heap, last'.left) + wstr_len(heap, last'.right)
         /\ as_wstr(mem', heap', last'.res)
                = as_wstr(mem, heap, last'.left) \o as_wstr(mem, heap, last'.right)]_vars

\* an in-place concat whose left operand is itself a dependent record
C1_Witness ==
    /\ last.op = "concat"
    /\ last.path = "in_place"
    /\ is_dependent(heap[last.left.gc])
    /\ Read(last.res) = Read(last.left) \o Read(last.right)

(***************************************************************************)
(* C2: every handle returned earlier still reads the units it read when it *)
(* was returned (static handles read their static data).                   *)
(***************************************************************************)
C2_AliasingSafety ==
    /\ \A i \in 1..Len(heap) : Content(i) = published[i]
    /\ \A s \in Statics : Read(s) = ReadUnits(StaticMem, s.ptr, s.len, s.wide)

\* a = concat("a", "b") with spare capacity, b = concat(a, "a") in place, then
\* c = concat(a, "b") on the stale handle a
C2_Witness ==
    /\ Len(heap) = 3
    /\ heap[1].capacity > 2
    /\ published[1] = <<97, 98>>
    /\ heap[2].owner = Owned(1)
    /\ last.op = "concat" /\ last.left = Owned(1) /\ last.res = Owned(3)
    /\ Content(1) = <<97, 98>>
    /\ Content(2) = <<97, 98, 97>>
    /\ Content(3) = <<97, 98, 98>>

(***************************************************************************)
(* C3: the in-place write happens only for an owned left of right's width  *)
(* whose end address is its ultimate owner's first free address and whose  *)
(* owner has room for right; the bytes written lie in the owner's free     *)
(* region and inside no existing handle's view.                            *)
(***************************************************************************)
C3_InPlaceGuarded ==
    [][(ConcatStep /\ last'.path = "in_place") =>
         LET l == last'.left
             r == last'.right
             o == Root(heap, l)
             cs == char_size(is_wide(heap, l))
         IN  /\ l.kind = "Owned"
             /\ o.kind = "Owned"
             /\ is_wide(heap, l) = is_wide(heap, r)
             /\ RangeHi(heap, l) = heap[o.gc].ptr + cs * heap[o.gc].chars_used
             /\ heap[o.gc].capacity - heap[o.gc].chars_used >= wstr_len(heap, r)
             /\ last'.count = cs * wstr_len(heap, r)
             /\ last'.dst >= heap[o.gc].ptr + cs * heap[o.gc].chars_used
             /\ last'.dst + last'.count <= heap[o.gc].ptr + cs * heap[o.gc].capacity
             /\ \A s \in Handles :
                    \/ RangeHi(heap, s) <= last'.dst
                    \/ last'.dst + last'.count <= RangeLo(heap, s)
             /\ \A i \in 1..Len(mem) :
                    (i < last'.dst \/ i >= last'.dst + last'.count) => mem'[i] = mem[i]]_vars

\* an in-place append that fills the owner's buffer to its capacity
C3_Witness ==
    /\ last.op = "concat"
    /\ last.path = "in_place"
    /\ heap[Root(heap, last.res).gc].chars_used = heap[Root(heap, last.res).gc].capacity
    /\ last.count > 0

(***************************************************************************)
(* C4: for non-empty operands (empty ones return at the short-circuit),    *)
(* whenever left is owned, of right's width, ends exactly at its ultimate  *)
(* owner's first free address (also as a substring starting at a non-zero  *)
(* offset) and the owner has room for right, concat allocates no buffer,   *)
(* advances the owner's chars_used by right's length and returns a         *)
(* dependent record starting at left's start, of the summed length, owned  *)
(* by left's ultimate owner.                                               *)
(***************************************************************************)
C4_InPlaceWheneverTail ==
    [][(/\ ConcatStep
        /\ wstr_len(heap, last'.left) > 0
        /\ wstr_len(heap, last'.right) > 0
        /\ last'.left.kind = "Owned"
        /\ Root(heap, last'.left).kind = "Owned"
        /\ is_wide(heap, last'.left) = is_wide(heap, last'.right)
        /\ RangeHi(heap, last'.left)
             = heap[Root(heap, last'.left).gc].ptr
                 + char_size(is_wide(heap, last'.left))
                     * heap[Root(heap, last'.left).gc].chars_used
        /\ heap[Root(heap, last'.left).gc].capacity
             - heap[Root(heap, last'.left).gc].chars_used
               >= wstr_len(heap, last'.right))
       =>
         LET l == last'.left
             o == Root(heap, l)
             rlen == wstr_len(heap, last'.right)
             res == heap'[last'.res.gc]
         IN  /\ bufs' = bufs
             /\ heap'[o.gc].chars_used = heap[o.gc].chars_used + rlen
             /\ last'.res = Owned(Len(heap) + 1)
             /\ res.owner = o
             /\ res.ptr = heap[l.gc].ptr
             /\ res.len = heap[l.gc].len + rlen]_vars

(***************************************************************************)
(* C5: every non-dependent record has len <= chars_used <= capacity.       *)
(***************************************************************************)
C5_OwnerCounters ==
    \A i \in 1..Len(heap) :
        ~is_dependent(heap[i]) =>
            /\ heap[i].len <= heap[i].chars_used
            /\ heap[i].chars_used <= heap[i].capacity

\* an owner whose buffer was appended to in place until it was full
C5_Witness ==
    \E i \in 1..Len(heap) :
        /\ ~is_dependent(heap[i])
        /\ heap[i].len < heap[i].chars_used
        /\ heap[i].chars_used = heap[i].capacity

(***************************************************************************)
(* C6: every dependent record has capacity 0 and chars_used 0, and its     *)
(* view lies inside the published prefix of its owner's buffer.            *)
(***************************************************************************)
C6_DependentInsideOwner ==
    \A i \in 1..Len(heap) :
        is_dependent(heap[i]) =>
            LET o == heap[i].owner
                cs == char_size(heap[i].wide)
                published_end ==
                    IF o.kind = "Owned"
                    THEN heap[o.gc].ptr + cs * heap[o.gc].chars_used
                    ELSE o.ptr + cs * o.len
            IN  /\ heap[i].capacity = 0
                /\ heap[i].chars_used = 0
                /\ wstr_ptr(heap, o) <= heap[i].ptr
                /\ heap[i].ptr + cs * heap[i].len <= published_end

\* a substring at a non-zero offset beside a record made by the in-place path
C6_Witness ==
    /\ last.op = "concat"
    /\ last.path = "in_place"
    /\ heap[last.res.gc].len > heap[last.left.gc].len
    /\ \E i \in 1..Len(heap) :
           /\ is_dependent(heap[i])
           /\ heap[i].owner = heap[last.res.gc].owner
           /\ heap[i].ptr > wstr_ptr(heap, heap[i].owner)

(***************************************************************************)
(* C7: the owner stored in a dependent record is never itself dependent.   *)
(***************************************************************************)
C7_FlatOwnership ==
    \A i \in 1..Len(heap) :
        is_dependent(heap[i]) =>
            \/ heap[i].owner.kind = "Static"
            \/ /\ heap[i].owner.kind = "Owned"
               /\ ~is_dependent(heap[heap[i].owner.gc])

\* new_dependent applied to a handle that is already dependent
C7_Witness ==
    /\ last.op = "new_dependent"
    /\ last.left.kind = "Owned"
    /\ is_dependent(heap[last.left.gc])
    /\ heap[last.res.gc].owner = heap[last.left.gc].owner

(***************************************************************************)
(* C8: new_dependent(a, i, j) with 0 <= i <= j <= len(a) copies nothing    *)
(* and returns a dependent handle reading a[i..j], lying inside a's view,  *)
(* whose owner is a's ultimate owner.                                      *)
(***************************************************************************)
C8_ZeroCopySubstring ==
    [][(ops' # ops /\ last'.op = "new_dependent") =>
         LET a == last'.left
             res == heap'[last'.res.gc]
         IN  /\ mem' = mem
             /\ bufs' = bufs
             /\ heap' = Append(heap, res)
             /\ is_dependent(res)
             /\ as_wstr(mem', heap', last'.res)
                    = SubSeq(as_wstr(mem, heap, a), last'.start + 1, last'.end)
             /\ RangeLo(heap, a) <= res.ptr
             /\ res.ptr + char_size(res.wide) * res.len <= RangeHi(heap, a)
             /\ owner(heap', last'.res) = Root(heap, a)
             /\ owner(heap', last'.res)
                    = (IF owner(heap, a) = None THEN a ELSE owner(heap, a))]_vars

\* a proper, non-empty substring at a non-zero offset of a dependent handle
C8_Witness ==
    /\ last.op = "new_dependent"
    /\ last.left.kind = "Owned"
    /\ is_dependent(heap[last.left.gc])
    /\ 0 < last.start
    /\ last.start < last.end
    /\ Read(last.res) = SubSeq(Read(last.left), last.start + 1, last.end)

(***************************************************************************)
(* C9: with an empty operand concat returns the other operand's handle     *)
(* itself, allocates nothing and changes no record; with both empty the    *)
(* result is empty.                                                        *)
(***************************************************************************)
C9_EmptyShortCircuit ==
    [][(/\ ConcatStep
        /\ wstr_len(heap, last'.left) = 0 \/ wstr_len(heap, last'.right) = 0)
       =>
         /\ wstr_len(heap, last'.left) # 0 => last'.res = last'.left
         /\ wstr_len(heap, last'.right) # 0 => last'.res = last'.right
         /\ last'.res \in {last'.left, last'.right}
         /\ wstr_len(heap, last'.res)
                = wstr_len(heap, last'.left) + wstr_len(heap, last'.right)
         /\ heap' = heap
         /\ bufs' = bufs
         /\ mem' = mem]_vars

\* concat(empty static, non-empty dependent record) returned the record
C9_Witness ==
    /\ last.op = "concat"
    /\ last.path = "empty"
    /\ last.left = StaticEmpty
    /\ last.right.kind = "Owned"
    /\ is_dependent(heap[last.right.gc])
    /\ heap[last.right.gc].len > 0
    /\ last.res = last.right

(***************************************************************************)
(* C10: on the slow path with n = len(left) + len(right) the new buffer's  *)
(* capacity is 32 if n < 32, n + 1MiB if n > 1MiB and 2n otherwise; the    *)
(* result is a new non-dependent, non-interned record with chars_used = n, *)
(* and no existing record changes.                                         *)
(***************************************************************************)
C10_SlowPathGrowth ==
    [][(ConcatStep /\ last'.path = "slow") =>
         LET n == wstr_len(heap, last'.left) + wstr_len(heap, last'.right)
             res == heap'[last'.res.gc]
         IN  /\ res.capacity
                    = (IF n < 32 THEN 32
                       ELSE IF n > 1048576 THEN n + 1048576
                       ELSE 2 * n)
             /\ n = 32 => res.capacity = 64
             /\ n = 1048576 => res.capacity = 2097152
             /\ last'.res = Owned(Len(heap) + 1)
             /\ ~is_dependent(res)
             /\ ~res.interned
             /\ res.len = n
             /\ res.chars_used = n
             /\ Len(bufs') = Len(bufs) + 1
             /\ bufs'[Len(bufs')].cap = res.capacity
             /\ \A i \in 1..Len(heap) : heap'[i] = heap[i]]_vars

\* a slow-path result of exactly 1MiB units, still in the doubling range
C10_Witness ==
    /\ last.op = "concat"
    /\ last.path = "slow"
    /\ heap[last.res.gc].len = 1048576
    /\ heap[last.res.gc].capacity = 2097152
    /\ heap[last.res.gc].chars_used = 1048576

(***************************************************************************)
(* C12: with one narrow and one wide operand, both non-empty, concat       *)
(* writes into no existing buffer and changes no record; it returns a      *)
(* fresh non-dependent wide record reading left followed by right.         *)
(***************************************************************************)
C12_MixedWidthSlow ==
    [][(/\ ConcatStep
        /\ wstr_len(heap, last'.left) > 0
        /\ wstr_len(heap, last'.right) > 0
        /\ is_wide(heap, last'.left) # is_wide(heap, last'.right))
       =>
         LET res == heap'[last'.res.gc]
         IN  /\ last'.path = "slow"
             /\ last'.res = Owned(Len(heap) + 1)
             /\ SubSeq(mem', 1, Len(mem)) = mem
             /\ \A i \in 1..Len(heap) : heap'[i] = heap[i]
             /\ Len(bufs') = Len(bufs) + 1
             /\ res.ptr = bufs'[Len(bufs')].base
             /\ ~is_dependent(res)
             /\ res.wide
             /\ as_wstr(mem', heap', last'.res)
                    = as_wstr(mem, heap, last'.left) \o as_wstr(mem, heap, last'.right)]_vars

\* a wide owner with spare capacity concatenated with a narrow static
C12_Witness ==
    /\ last.op = "concat"
    /\ last.path = "slow"
    /\ last.left.kind = "Owned"
    /\ heap[last.left.gc].wide
    /\ heap[last.left.gc].chars_used < heap[last.left.gc].capacity
    /\ last.right = StaticA
    /\ Read(last.res) = <<300, 97>>

(***************************************************************************)
(* C18: with two non-empty operands, when left is a static reference or    *)
(* left's ultimate owner is one, concat takes the slow path: it allocates  *)
(* a fresh buffer for a new owning record and changes no existing record.  *)
(***************************************************************************)
C18_StaticLeftSlow ==
    [][(/\ ConcatStep
        /\ wstr_len(heap, last'.left) > 0
        /\ wstr_len(heap, last'.right) > 0
        /\ Root(heap, last'.left).kind = "Static")
       =>
         LET res == heap'[last'.res.gc]
             n == wstr_len(heap, last'.left) + wstr_len(heap, last'.right)
         IN  /\ last'.path = "slow"
             /\ last'.res = Owned(Len(heap) + 1)
             /\ SubSeq(mem', 1, Len(mem)) = mem
             /\ \A i \in 1..Len(heap) : heap'[i] = heap[i]
             /\ Len(bufs') = Len(bufs) + 1
             /\ res.ptr = bufs'[Len(bufs')].base
             /\ ~is_dependent(res)
             /\ res.len = n
             /\ res.chars_used = n
             /\ res.capacity >= n]_vars

\* concat whose left operand is a dependent substring of a static string
C18_Witness ==
    /\ last.op = "concat"
    /\ last.path = "slow"
    /\ last.left.kind = "Owned"
    /\ heap[last.left.gc].owner.kind = "Static"
    /\ heap[last.left.gc].len > 0
    /\ is_wide(heap, last.left) = is_wide(heap, last.right)

(***************************************************************************)
(* C19: concat(a, a) with non-empty a reads a followed by a; on the        *)
(* in-place path the bytes copied from lie in the published prefix of the  *)
(* owner's buffer and do not overlap the bytes written, and a still reads  *)
(* its original units afterwards.                                          *)
(***************************************************************************)
C19_SelfConcat ==
    [][(/\ ConcatStep
        /\ last'.left = last'.right
        /\ wstr_len(heap, last'.left) > 0)
       =>
         LET a == last'.left
             o == Root(heap, a)
             src == wstr_ptr(heap, a)
         IN  /\ as_wstr(mem', heap', last'.res)
                    = as_wstr(mem, heap, a) \o as_wstr(mem, heap, a)
             /\ as_wstr(mem', heap', a) = as_wstr(mem, heap, a)
             /\ last'.path = "in_place" =>
                    /\ last'.count = RangeHi(heap, a) - RangeLo(heap, a)
                    /\ src + last'.count <= last'.dst
                    /\ src + last'.count
                         <= heap[o.gc].ptr
                              + char_size(is_wide(heap, a)) * heap[o.gc].chars_used
                    /\ last'.dst
                         >= heap[o.gc].ptr
                              + char_size(is_wide(heap, a)) * heap[o.gc].chars_used]_vars

\* an in-place self-concatenation of a dependent record
C19_Witness ==
    /\ last.op = "concat"
    /\ last.path = "in_place"
    /\ last.left = last.right
    /\ is_dependent(heap[last.left.gc])
    /\ Read(last.res) = Read(last.left) \o Read(last.left)

(***************************************************************************)
(* C20: to_fully_owned returns a non-dependent record reading what the     *)
(* handle read.  For an owned non-dependent handle it is the handle's own  *)
(* record and nothing is allocated or changed; for a dependent or static   *)
(* handle it is a fresh non-dependent, non-interned record holding a copy. *)
(* No existing record or byte changes, and mark_interned would not panic   *)
(* on the returned record.                                                 *)
(***************************************************************************)
C20_ToFullyOwned ==
    [][(ops' # ops /\ last'.op = "to_fully_owned")
       =>
         LET s == last'.left
             r == last'.res
             reuse == s.kind = "Owned" /\ ~is_dependent(heap[s.gc])
         IN  /\ r.kind = "Owned"
             /\ ~is_dependent(heap'[r.gc])
             /\ ~mark_interned_panics(heap'[r.gc])
             /\ as_wstr(mem', heap', r) = as_wstr(mem, heap, s)
             /\ SubSeq(mem', 1, Len(mem)) = mem
             /\ \A i \in 1..Len(heap) : heap'[i] = heap[i]
             /\ reuse => /\ r = s
                         /\ heap' = heap
                         /\ mem' = mem
                         /\ bufs' = bufs
             /\ ~reuse => /\ r = Owned(Len(heap) + 1)
                          /\ Len(heap') = Len(heap) + 1
                          /\ ~is_interned(heap'[r.gc])
                          /\ heap'[r.gc].chars_used = heap'[r.gc].len
                          /\ heap'[r.gc].len > 0 =>
                                 /\ Len(bufs') = Len(bufs) + 1
                                 /\ heap'[r.gc].ptr = bufs'[Len(bufs')].base]_vars

\* to_fully_owned has copied a dependent record that reads the tail of a
\* longer owner
C20_Witness ==
    /\ last.op = "to_fully_owned"
    /\ last.path = "copy"
    /\ last.left.kind = "Owned"
    /\ is_dependent(heap[last.left.gc])
    /\ Read(last.left) = <<97>>
    /\ Read(last.res) = <<97>>
    /\ heap[last.res.gc].ptr # heap[last.left.gc].ptr

(***************************************************************************)
(* C13: no record is both interned and dependent.  mark_interned on a      *)
(* dependent record panics and leaves every record, its interned flag and  *)
(* capacity included, as it was; the records built by new_dependent and by *)
(* concat's in-place path have the flag clear.                             *)
(***************************************************************************)
C13_InternedNeverDependent ==
    /\ [](\A i \in 1..Len(heap) :
              ~(is_interned(heap[i]) /\ is_dependent(heap[i])))
    /\ [][/\ (ops' # ops /\ last'.op = "mark_interned"
                 /\ is_dependent(heap[last'.left.gc]))
             => /\ last'.path = "panic"
                /\ heap' = heap
          /\ (ops' # ops /\ last'.op = "mark_interned"
                 /\ ~is_dependent(heap[last'.left.gc]))
             => /\ last'.path = "set"
                /\ is_interned(heap'[last'.left.gc])
                /\ heap'[last'.left.gc].capacity = heap[last'.left.gc].capacity
          /\ (ops' # ops /\ (\/ last'.op = "new_dependent"
                             \/ last'.op = "concat" /\ last'.path = "in_place"))
             => /\ is_dependent(heap'[last'.res.gc])
                /\ ~is_interned(heap'[last'.res.gc])]_vars

\* mark_interned has panicked on a substring of an interned record
C13_Witness ==
    /\ last.op = "mark_interned"
    /\ last.path = "panic"
    /\ is_dependent(heap[last.left.gc])
    /\ ~is_interned(heap[last.left.gc])
    /\ heap[last.left.gc].owner.kind = "Owned"
    /\ is_interned(heap[heap[last.left.gc].owner.gc])

\* no two distinct interned records read the same units
InternedUnique(m, h) ==
    \A i \in 1..Len(h), j \in 1..Len(h) :
        (i # j /\ is_interned(h[i]) /\ is_interned(h[j]))
            => ReadUnits(m, h[i].ptr, h[i].len, h[i].wide)
                   # ReadUnits(m, h[j].ptr, h[j].len, h[j].wide)

\* record i is interned and reads the units of record j
InternedTwin(m, h, i, j) ==
    /\ i # j
    /\ is_interned(h[i])
    /\ ReadUnits(m, h[i].ptr, h[i].len, h[i].wide)
           = ReadUnits(m, h[j].ptr, h[j].len, h[j].wide)

\* C14 as stated: in every state reached through from_raw with the interned
\* flag, mark_interned, to_fully_owned, concat and new_dependent, no two
\* distinct interned records hold equal content
C14_InternedUniqueAlways == InternedUnique(mem, heap)

(***************************************************************************)
(* C14, amended: new_dependent, concat and to_fully_owned never set or     *)
(* clear an interned flag, never build an interned record and never change *)
(* what an interned record reads, so they keep interned content unique.    *)
(* from_raw with the flag and mark_interned set the flag without looking   *)
(* at any other record: they keep interned content unique exactly when no  *)
(* other interned record reads the units of the record they mark.          *)
(***************************************************************************)
C14_InternedUniqueKept ==
    [][ops' # ops =>
         LET raw == last'.op \in {"from_raw_interned", "mark_interned"}
             marked == IF last'.op = "mark_interned" THEN last'.left.gc
                                                     ELSE last'.res.gc
         IN  /\ \A i \in 1..Len(heap) :
                    is_interned(heap[i]) =>
                        /\ is_interned(heap'[i])
                        /\ ReadUnits(mem', heap'[i].ptr, heap'[i].len, heap'[i].wide)
                               = ReadUnits(mem, heap[i].ptr, heap[i].len, heap[i].wide)
             /\ ~raw =>
                    /\ \A i \in 1..Len(heap) :
                           is_interned(heap'[i]) = is_interned(heap[i])
                    /\ \A i \in (Len(heap) + 1)..Len(heap') :
                           ~is_interned(heap'[i])
                    /\ InternedUnique(mem, heap) => InternedUnique(mem', heap')
             /\ (raw /\ last'.path # "panic") =>
                    /\ is_interned(heap'[marked])
                    /\ InternedUnique(mem', heap')
                         <=> /\ InternedUnique(mem, heap)
                             /\ \A j \in 1..Len(heap') :
                                    ~InternedTwin(mem', heap', j, marked)]_vars

\* an in-place append onto an interned record, with a second interned
\* record of other content present
C14_Witness ==
    /\ last.op = "concat"
    /\ last.path = "in_place"
    /\ is_interned(heap[last.left.gc])
    /\ \E j \in 1..Len(heap) : j # last.left.gc /\ is_interned(heap[j])
    /\ InternedUnique(mem, heap)

(***************************************************************************)
(* C15: a == b is true for two owned handles to the same record, false for *)
(* two distinct records that are both interned, and the unit-by-unit       *)
(* comparison of the contents otherwise.  Where no two distinct interned   *)
(* records read equal units, a == b is content equality for every pair.    *)
(***************************************************************************)
C15_HandleEquality ==
    \A a \in Handles, b \in Handles :
        LET same == a.kind = "Owned" /\ b.kind = "Owned" /\ a.gc = b.gc
            atoms == /\ a.kind = "Owned" /\ b.kind = "Owned" /\ a.gc # b.gc
                     /\ is_interned(heap[a.gc]) /\ is_interned(heap[b.gc])
            r == eq(mem, heap, a, b)
        IN  /\ same => r
            /\ atoms => ~r
            /\ (~same /\ ~atoms) => (r <=> Read(a) = Read(b))
            /\ InternedUnique(mem, heap) => (r <=> Read(a) = Read(b))

\* == has rejected two distinct interned records of different content
C15_Witness ==
    /\ last.op = "eq"
    /\ last.path = "false"
    /\ last.left.kind = "Owned"
    /\ last.right.kind = "Owned"
    /\ last.left.gc # last.right.gc
    /\ is_interned(heap[last.left.gc])
    /\ is_interned(heap[last.right.gc])
    /\ Read(last.left) # Read(last.right)
    /\ InternedUnique(mem, heap)

\* the bytes of the buffer at base b that was handed back overlap [lo, hi)
FreedOverlaps(b, lo, hi) ==
    \E k \in 1..Len(bufs) :
        /\ bufs[k].base = b
        /\ lo < hi
        /\ lo < b + char_size(bufs[k].wide) * bufs[k].cap
        /\ b < hi

(***************************************************************************)
(* C16: dropping a record hands its buffer back only when the record is    *)
(* non-dependent, and no buffer is handed back twice; dropping a dependent *)
(* record frees nothing.  A record reached from a rooted record through    *)
(* the owner field is never dropped, so every rooted handle reads bytes of *)
(* no freed buffer and still reads the units it was created with.          *)
(***************************************************************************)
C16_Reclamation ==
    /\ [](/\ \A a \in 1..Len(freed), b \in 1..Len(freed) :
                 freed[a] = freed[b] => a = b
          /\ \A a \in 1..Len(freed) :
                 \E i \in dropped : ~is_dependent(heap[i]) /\ heap[i].ptr = freed[a]
          /\ \A i \in dropped :
                 (~is_dependent(heap[i]) /\ heap[i].capacity > 0)
                     => \E a \in 1..Len(freed) : freed[a] = heap[i].ptr
          /\ \A i \in (1..Len(heap)) \ unrooted :
                 /\ i \notin dropped
                 /\ is_dependent(heap[i]) /\ heap[i].owner.kind = "Owned"
                        => heap[i].owner.gc \notin dropped
                 /\ \A a \in 1..Len(freed) :
                        ~FreedOverlaps(freed[a], RangeLo(heap, Owned(i)),
                                       RangeHi(heap, Owned(i)))
                 /\ Read(Owned(i)) = published[i])
    /\ [][dropped' # dropped =>
            \E i \in 1..Len(heap) :
                /\ dropped' = dropped \cup {i}
                /\ i \notin dropped
                /\ is_dependent(heap[i]) => (freed' = freed /\ mem' = mem)
                /\ (~is_dependent(heap[i]) /\ heap[i].capacity > 0)
                       => freed' = Append(freed, heap[i].ptr)
                /\ Len(freed') <= Len(freed) + 1]_vars

\* the program has let go of an owner that a rooted dependent record still
\* reads: the owner stays
C16_Witness ==
    \E i \in unrooted, j \in (1..Len(heap)) \ unrooted :
        /\ heap[j].owner = Owned(i)
        /\ heap[j].len > 0
        /\ i \notin dropped
        /\ i \in Live

\* the first chars_used units of the buffer of the non-dependent record r
\* are written
PrefixWritten(m, r) ==
    \A a \in r.ptr..(r.ptr + char_size(r.wide) * r.chars_used - 1) :
        m[a] # Uninit

(***************************************************************************)
(* C17: on the in-place path the bytes of right are in the owner's free    *)
(* region before chars_used moves.  In every state, intermediate ones      *)
(* included, every unit below an owner's chars_used is fully written;      *)
(* chars_used changes in one step only, after the whole copy, by exactly   *)
(* right's length, and memory does not change in that step.                *)
(***************************************************************************)
C17_WriteThenPublish ==
    /\ [](\A i \in 1..Len(heap) :
              ~is_dependent(heap[i]) => PrefixWritten(mem, heap[i]))
    /\ [][/\ frame.pc = "copy" /\ frame'.pc = "copy" => heap' = heap
          /\ \A i \in 1..Len(heap) :
                 heap'[i].chars_used # heap[i].chars_used =>
                     LET rlen == wstr_len(heap, frame.right)
                         wide == is_wide(heap, frame.left)
                     IN  /\ frame.pc = "copy"
                         /\ frame'.pc = "publish"
                         /\ Owned(i) = left_origin_s(heap, frame.left)
                         /\ frame.copied = CopyOffsets(heap, frame)
                         /\ heap'[i].chars_used = heap[i].chars_used + rlen
                         /\ mem' = mem
                         /\ ReadUnits(mem, first_available(heap, frame.left),
                                      rlen, wide)
                                = as_wstr(mem, heap, frame.right)
                         /\ \A j \in 1..Len(heap) : j # i => heap'[j] = heap[j]]_vars

\* half of a wide unit is copied and the counter has not moved
C17_Witness ==
    /\ frame.pc = "copy"
    /\ frame.copied = {1}
    /\ is_wide(heap, frame.left)
    /\ mem[first_available(heap, frame.left)] = Uninit
    /\ heap[left_origin_s(heap, frame.left).gc].chars_used = 1

(***************************************************************************)
(* C11: in the loop  s = concat(s, "a")  from the empty string, an         *)
(* iteration allocates a buffer only when s is a static string or its      *)
(* owner's buffer is full, and appends in place whenever the owner has     *)
(* room.  After k >= 2 allocations s holds at least 2^(k+3) characters, so *)
(* the allocations number at most log2 of the length; 10,000 iterations    *)
(* make 10.                                                                *)
(***************************************************************************)
C11_AmortizedGrowth ==
    /\ []((Len(bufs) >= 2 => 2 ^ (Len(bufs) + 3) <= wstr_len(heap, Current))
          /\ (ops = 10000 => Len(bufs) = 10))
    /\ [][ops' # ops =>
            LET left == last'.left
                root == Root(heap, left)
                room == /\ root.kind = "Owned"
                        /\ heap[root.gc].chars_used < heap[root.gc].capacity
            IN  /\ last'.left = Current
                /\ wstr_len(heap', last'.res) = ops'
                /\ Len(bufs') # Len(bufs) =>
                       /\ last'.path = "slow"
                       /\ Len(bufs') = Len(bufs) + 1
                       /\ ~room
                /\ room => /\ last'.path = "in_place"
                           /\ bufs' = bufs
                           /\ heap'[1].chars_used = heap[1].chars_used + 1
                           /\ heap'[1].ptr = heap[1].ptr
                           /\ heap'[2].owner = Owned(1)]_vars

\* the loop has run 10,000 times
C11_Witness ==
    /\ ops = 10000
    /\ Len(bufs) = 10
    /\ wstr_len(heap, Current) = 10000
    /\ last.path = "in_place"
    /\ heap[1].capacity = 17406

(***************************************************************************)
(* C21: no step removes a record or changes a record's buffer address,     *)
(* length, width, capacity or owner.  The interned flag changes only from  *)
(* clear to set, on the record mark_interned is called on.  chars_used     *)
(* changes only on a non-dependent record, only upwards, and only on the   *)
(* owner that concat appends to in place.                                  *)
(***************************************************************************)
C21_FrameEffect ==
    [][/\ Len(heap') >= Len(heap)
       /\ \A i \in 1..Len(heap) :
              /\ heap'[i].ptr = heap[i].ptr
              /\ heap'[i].len = heap[i].len
              /\ heap'[i].wide = heap[i].wide
              /\ heap'[i].capacity = heap[i].capacity
              /\ heap'[i].owner = heap[i].owner
              /\ heap'[i].interned # heap[i].interned =>
                     /\ ~heap[i].interned
                     /\ heap'[i].interned
                     /\ last'.op = "mark_interned"
                     /\ last'.path = "set"
                     /\ last'.left = Owned(i)
                     /\ heap'[i].chars_used = heap[i].chars_used
              /\ heap'[i].chars_used # heap[i].chars_used =>
                     /\ ~is_dependent(heap[i])
                     /\ heap'[i].chars_used > heap[i].chars_used
                     /\ last'.op = "concat"
                     /\ last'.path = "in_place"
                     /\ Root(heap, last'.left) = Owned(i)
                     /\ heap'[i].chars_used
                            = heap[i].chars_used + wstr_len(heap, last'.right)
                     /\ heap'[i].interned = heap[i].interned]_vars

\* mark_interned has acted on a record that an in-place append had grown
C21_Witness ==
    /\ last.op = "mark_interned"
    /\ last.path = "set"
    /\ heap[last.left.gc].interned
    /\ heap[last.left.gc].chars_used > heap[last.left.gc].len
    /\ heap[last.left.gc].capacity >= heap[last.left.gc].chars_used

(***************************************************************************)
(* C22: an in-place append onto an interned record leaves that record's    *)
(* units, length and interned flag as they were, and the dependent record  *)
(* it returns is not interned.  as_interned gives the atom exactly for an  *)
(* owned handle whose record has the flag set, and nothing for a static    *)
(* or a dependent handle.                                                  *)
(***************************************************************************)
C22_InternedAppend ==
    [][/\ (/\ ConcatStep
           /\ last'.path = "in_place"
           /\ is_interned(heap[Root(heap, last'.left).gc]))
          => LET o == Root(heap, last'.left).gc
             IN  /\ is_interned(heap'[o])
                 /\ heap'[o].len = heap[o].len
                 /\ as_wstr(mem', heap', Owned(o)) = as_wstr(mem, heap, Owned(o))
                 /\ as_interned(heap', Owned(o)) = Owned(o)
                 /\ is_dependent(heap'[last'.res.gc])
                 /\ heap'[last'.res.gc].owner = Owned(o)
                 /\ ~is_interned(heap'[last'.res.gc])
                 /\ as_interned(heap', last'.res) = None
       /\ (ops' # ops /\ last'.op = "as_interned")
          => LET s == last'.left
             IN  /\ last'.res # None
                    <=> (s.kind = "Owned" /\ is_interned(heap[s.gc]))
                 /\ last'.res # None => last'.res = s
                 /\ s.kind = "Static" => last'.res = None
                 /\ (s.kind = "Owned" /\ is_dependent(heap[s.gc]))
                        => last'.res = None]_vars

\* the result of a slow-path concat was interned and then appended to in place
C22_Witness ==
    /\ last.op = "concat"
    /\ last.path = "in_place"
    /\ last.left.kind = "Owned"
    /\ ~is_dependent(heap[last.left.gc])
    /\ is_interned(heap[last.left.gc])
    /\ heap[last.left.gc].capacity = MinCapacity
    /\ heap[last.left.gc].chars_used = heap[last.left.gc].len + 1
    /\ ~is_interned(heap[last.res.gc])

(***************************************************************************)
(* C23: for every atom t and handle s, t == s, s == t and                  *)
(* AvmString::from(t) == s give the same answer.  When s is interned the   *)
(* answer is whether t and s are the same record; otherwise it is the      *)
(* unit-by-unit comparison of the contents.                                *)
(***************************************************************************)
C23_MixedEquality ==
    \A t \in Atoms, s \in Handles :
        LET r == eq_atom(mem, heap, t, s)
        IN  /\ r = eq_string_atom(mem, heap, s, t)
            /\ r = eq(mem, heap, from_atom(t), s)
            /\ as_interned(heap, s) # None => (r <=> t.gc = s.gc)
            /\ as_interned(heap, s) = None => (r <=> Read(t) = Read(s))
            /\ (last.op = "atom_eq" /\ last.left = t /\ last.right = s)
                   => (last.path = "true" <=> r)
            /\ (last.op = "eq_atom" /\ last.left = s /\ last.right = t)
                   => (last.path = "true" <=> r)

\* an atom was compared with a non-interned record of the same content
C23_Witness ==
    /\ last.op = "atom_eq"
    /\ last.path = "true"
    /\ last.right.kind = "Owned"
    /\ last.left.gc # last.right.gc
    /\ is_interned(heap[last.left.gc])
    /\ ~is_interned(heap[last.right.gc])
    /\ Read(last.left) = Read(last.right)

====
